---- MODULE Spec2Model ----
(***************************************************************************)
(* A model of analyze_workflows.py: the fetch -> aggregate -> report       *)
(* pipeline of main(), with the external `gh` client as the environment,   *)
(* and the step-log scraper parse_step_logs().                             *)
(*                                                                         *)
(* Records of the client.  A run has the fields the run list asks for; a   *)
(* job object has a string under 'name' and a number under                 *)
(* 'durationMinutes' when it has the key.  Durations are integers.         *)
(***************************************************************************)
EXTENDS Integers, Sequences, FiniteSets, TLC

VARIABLES
    pc,            \* position of the process
    args,          \* what argparse makes of the command line: accepted, help, rejected
    gh_runs,       \* environment: result of `gh run list`
    gh_jobs,       \* environment: result of `gh run view <id> --json jobs`, per run id
    gh_log,        \* environment: lines of `gh run view <id> --log`
    cmds,          \* external commands issued so far, in order
    runs,          \* main: runs
    perf,          \* print_analysis_report: perf
    i,             \* identify_slowest_jobs: number of loop iterations completed
    job_times,     \* identify_slowest_jobs: job_times (insertion-ordered dict)
    slowest,       \* print_analysis_report: slowest
    stdout,        \* lines printed to standard output
    stderr,        \* lines printed to standard error
    exit_code,     \* process exit status, Running while the process runs
    log_output,    \* parse_step_logs: log_output.split('\n')
    li,            \* parse_step_logs: number of lines consumed
    current_step,  \* parse_step_logs: current_step
    steps          \* parse_step_logs: steps

vars == <<pc, args, gh_runs, gh_jobs, gh_log, cmds, runs, perf, i, job_times,
          slowest, stdout, stderr, exit_code, log_output, li, current_step, steps>>

mainVars == <<args, gh_runs, gh_jobs, runs, perf, i, job_times, slowest,
              stdout, stderr, exit_code>>
logVars == <<gh_log, log_output, li, current_step, steps>>

-----------------------------------------------------------------------------
(* Bounds of the model *)

MaxRuns == 3          \* length of the freely chosen part of a run list
LongPrefix == 9       \* repeated prefix of the long run lists of Spec
LongPrefixPerf == 19  \* repeated prefix of the long run lists of SpecPerf
MaxLogLines == 3      \* lines of a step log

(* Constants of the program *)

AnalyzedRunLimit == 10     \* runs[:10]
TopJobs == 5               \* slowest[:5]
LowSuccessThreshold == 90  \* success_rate < 90
HighAvgThreshold == 10     \* avg_duration > 10
SlowJobThreshold == 5      \* slowest_job[1] > 5
ExitFailure == 1           \* sys.exit(1)
ExitUsage == 2             \* argparse: parser.error() exits with status 2
ExitHelp == 0              \* argparse: the help action exits with status 0
ExitSuccess == 0           \* main returns
Running == -1              \* no exit status yet

-----------------------------------------------------------------------------
(* Generic helpers *)

RECURSIVE Rep(_, _)
Rep(x, n) == IF n = 0 THEN <<>> ELSE <<x>> \o Rep(x, n - 1)

SeqsUpTo(S, n) == UNION { [1..k -> S] : k \in 0..n }

RECURSIVE SumSeq(_)
SumSeq(s) == IF s = <<>> THEN 0 ELSE Head(s) + SumSeq(Tail(s))

Min(a, b) == IF a <= b THEN a ELSE b

-----------------------------------------------------------------------------
(* Floats.  A quotient of two integers is a double: the 53 leading bits of   *)
(* the quotient, rounded half to even.  f"{x:.1f}" prints the tenth nearest  *)
(* to the double, so at a quotient that lies midway between two tenths the   *)
(* text depends on the side of the quotient the double lies on.              *)

RECURSIVE BitLength(_)
BitLength(n) == IF n = 0 THEN 0 ELSE 1 + BitLength(n \div 2)

RECURSIVE Pow2(_)
Pow2(n) == IF n = 0 THEN 1 ELSE 2 * Pow2(n - 1)

\* x * 2^k modulo m, four binary places at a time
RECURSIVE ShiftMod(_, _, _)
ShiftMod(x, m, k) ==
    IF k = 0 THEN x
    ELSE IF k >= 4 THEN ShiftMod((16 * x) % m, m, k - 4)
    ELSE ShiftMod((2 * x) % m, m, k - 1)

\* the number of binary places before the first 1 of n / d, for 0 < n < d
RECURSIVE LeadingShift(_, _)
LeadingShift(n, d) == IF 2 * n >= d THEN 1 ELSE 1 + LeadingShift(2 * n, d)

\* the 53 leading bits of n / d, n > 0, are the integer part of n * 2^k / d
\* for the k that makes it 53 bits long: the remainder r that division
\* leaves, the low 8 bits and the last bit of the 53, and the exponent e of
\* the leading bit
DivBits(n, d) ==
    LET k == IF n >= d THEN 53 - BitLength(n \div d) ELSE 52 + LeadingShift(n, d)
        low == ShiftMod(n % (256 * d), 256 * d, k) \div d
    IN  [r |-> ShiftMod(n % d, d, k), low |-> low, last |-> low % 2, e |-> 52 - k]

\* whether the 53 bits are rounded up: round half to even
RoundsUp(bits, d) == 2 * bits.r > d \/ (2 * bits.r = d /\ bits.last = 1)

Sign(v) == IF v > 0 THEN 1 ELSE IF v < 0 THEN 0 - 1 ELSE 0

\* the side of n / d the double n / d lies on: 1 above, -1 below, 0 equal
QuotientSide(n, d) ==
    LET bits == DivBits(n, d)
        c == IF RoundsUp(bits, d) THEN 1 ELSE 0
    IN  Sign(c * d - bits.r)

\* the side of 100 * n / d the double (n / d) * 100 lies on, for 0 < n <= d:
\* the double n / d times 100 is rounded to 53 bits again, which drops its
\* low 6 or 7 bits
PercentSide(n, d) ==
    LET bits == DivBits(n, d)
        c == IF RoundsUp(bits, d) THEN 1 ELSE 0
        ylow == (bits.low + c) % 256
        m == IF 25 * n * Pow2(0 - bits.e) >= 32 * d THEN 128 ELSE 64
        rho == (100 * ylow) % m
        odd == ((100 * (ylow % (2 * m))) \div m) % 2 = 1
        adj == IF 2 * rho > m \/ (2 * rho = m /\ odd) THEN m - rho ELSE 0 - rho
    IN  Sign(adj * d + 100 * (c * d - bits.r))

\* the tenth printed for a double on the given side of t / d tenths
NearestTenth(t, d, side) ==
    LET q == t \div d
        r == t % d
    IN  IF 2 * r < d THEN q
        ELSE IF 2 * r > d THEN q + 1
        ELSE IF side > 0 THEN q + 1
        ELSE IF side < 0 THEN q
        ELSE IF q % 2 = 0 THEN q ELSE q + 1

Text1f(t) == [int |-> t \div 10, frac |-> t % 10]

\* f"{num / den:.1f}" for num >= 0, den > 0: the digits before and after the point
Format1f(num, den) ==
    Text1f(IF num = 0 THEN 0
           ELSE NearestTenth(10 * num, den,
                             IF 2 * ((10 * num) % den) = den
                             THEN QuotientSide(num, den) ELSE 0))

\* f"{(num / den * 100):.1f}" for 0 <= num <= den, den > 0
FormatPercent1f(num, den) ==
    Text1f(IF num = 0 THEN 0
           ELSE NearestTenth(1000 * num, den,
                             IF 2 * ((1000 * num) % den) = den
                             THEN PercentSide(num, den) ELSE 0))

\* float(text) of such a numeral, in tenths
FloatTenths(text) == 10 * text.int + text.frac

NoText == [int |-> 0, frac |-> 0]

-----------------------------------------------------------------------------
(* The external client: subprocess results *)

Completed(rc, out, err) == [returncode |-> rc, stdout |-> out, stderr |-> err]

\* subprocess.run(..., check=True) raises CalledProcessError on a non-zero status
CalledProcessError(result) == result.returncode # 0

-----------------------------------------------------------------------------
(* analyze_performance *)

Run(id, conclusion, minutes) ==
    [id |-> id, conclusion |-> conclusion, durationMinutes |-> minutes]

RECURSIVE CountConclusion(_, _)
CountConclusion(rs, c) ==
    IF rs = <<>> THEN 0
    ELSE (IF Head(rs).conclusion = c THEN 1 ELSE 0) + CountConclusion(Tail(rs), c)

durations_of(rs) == [k \in DOMAIN rs |-> rs[k].durationMinutes]

\* every run that did not fail counted as a success
successes_not_failed(rs) == Len(rs) - CountConclusion(rs, "failure")

successes_of(rs) == CountConclusion(rs, "success")

failures_of(rs) == CountConclusion(rs, "failure")

RECURSIVE MinSeq(_)
MinSeq(s) == IF Len(s) = 1 THEN s[1] ELSE Min(s[1], MinSeq(Tail(s)))

RECURSIVE MaxSeq(_)
MaxSeq(s) ==
    IF Len(s) = 1 THEN s[1]
    ELSE LET m == MaxSeq(Tail(s)) IN IF s[1] >= m THEN s[1] ELSE m

\* insert x into the ascending sequence s, after the elements equal to it
RECURSIVE InsertAsc(_, _)
InsertAsc(s, x) ==
    IF s = <<>> THEN <<x>>
    ELSE IF x < Head(s) THEN <<x>> \o s
    ELSE <<Head(s)>> \o InsertAsc(Tail(s), x)

\* sorted(durations)
RECURSIVE SortedAsc(_)
SortedAsc(s) ==
    IF s = <<>> THEN <<>>
    ELSE InsertAsc(SortedAsc(SubSeq(s, 1, Len(s) - 1)), s[Len(s)])

\* the lower of the two middle values: sorted(durations)[(len(durations) - 1) // 2]
median_lower(ds) == SortedAsc(ds)[((Len(ds) - 1) \div 2) + 1]

\* sorted(durations)[len(durations) // 2], Python's index being 0-based
median_of(ds) == SortedAsc(ds)[(Len(ds) \div 2) + 1]

EmptyMapping == [k \in {} |-> 0]

analyze_performance(rs) ==
    IF rs = <<>> THEN EmptyMapping
    ELSE LET ds == durations_of(rs) IN
         [ total_runs              |-> Len(rs),
           success_rate            |-> FormatPercent1f(successes_of(rs), Len(rs)),
           failures                |-> failures_of(rs),
           avg_duration_minutes    |-> Format1f(SumSeq(ds), Len(ds)),
           min_duration_minutes    |-> MinSeq(ds),
           max_duration_minutes    |-> MaxSeq(ds),
           median_duration_minutes |-> median_of(ds) ]

\* the keys of perf in the order perf.items() yields them
PerfKeys == << "total_runs", "success_rate", "failures", "avg_duration_minutes",
               "min_duration_minutes", "max_duration_minutes",
               "median_duration_minutes" >>

-----------------------------------------------------------------------------
(* get_job_details: one JSON record per line of the command's output *)

\* a line holding a job object; a key that is absent has its has_ flag FALSE
JobLine(has_name, name, has_duration, minutes) ==
    [kind |-> "job", has_name |-> has_name, name |-> name,
     has_duration |-> has_duration, durationMinutes |-> minutes]

J(name, minutes) == JobLine(TRUE, name, TRUE, minutes)

\* a line that is not JSON (a line of whitespace inside the output included)
Malformed == [kind |-> "malformed", has_name |-> FALSE, name |-> "",
              has_duration |-> FALSE, durationMinutes |-> 0]

\* a line holding a JSON value that is not an object: a number, null, a list
NotObject == [kind |-> "not_object", has_name |-> FALSE, name |-> "",
              has_duration |-> FALSE, durationMinutes |-> 0]

\* an empty line
Blank == [kind |-> "blank", has_name |-> FALSE, name |-> "",
          has_duration |-> FALSE, durationMinutes |-> 0]

\* the lines that pass `if line`
RECURSIVE NonEmptyLines(_)
NonEmptyLines(lines) ==
    IF lines = <<>> THEN <<>>
    ELSE (IF Head(lines).kind = "blank" THEN <<>> ELSE <<Head(lines)>>)
         \o NonEmptyLines(Tail(lines))

\* json.loads(line) of a line that is JSON: the dict of the keys present, or a
\* value that is no dict
json_loads(line) ==
    [is_dict |-> line.kind = "job", has_name |-> line.has_name, name |-> line.name,
     has_duration |-> line.has_duration, durationMinutes |-> line.durationMinutes]

\* a line that is not JSON dropped, the other lines kept
get_job_details_lenient(lines) ==
    LET kept == NonEmptyLines(lines)
        RECURSIVE WellFormed(_)
        WellFormed(ls) ==
            IF ls = <<>> THEN <<>>
            ELSE (IF Head(ls).kind = "malformed" THEN <<>> ELSE <<json_loads(Head(ls))>>)
                 \o WellFormed(Tail(ls))
    IN  [raised |-> FALSE, jobs |-> WellFormed(kept)]

\* [json.loads(line) for line in output.strip().split('\n') if line]:
\* json.loads raises on the first line that is not JSON and no list is returned
get_job_details(lines) ==
    LET kept == NonEmptyLines(lines) IN
    IF \E k \in DOMAIN kept : kept[k].kind = "malformed"
    THEN [raised |-> TRUE, jobs |-> <<>>]
    ELSE [raised |-> FALSE, jobs |-> [k \in DOMAIN kept |-> json_loads(kept[k])]]

-----------------------------------------------------------------------------
(* identify_slowest_jobs *)

\* the slice left out: every run analyzed
analyzed_runs_all(rs) == rs

\* runs[:10]
analyzed_runs(rs) == SubSeq(rs, 1, Min(Len(rs), AnalyzedRunLimit))

\* job.get('name', 'Unknown')
job_name_of(job) == IF job.has_name THEN job.name ELSE "Unknown"

\* job.get('durationMinutes', 0)
duration_of(job) == IF job.has_duration THEN job.durationMinutes ELSE 0

\* job_times[job_name].append(duration), the key created on first use;
\* the dict is the sequence of its items in insertion order
AddJob(jt, job) ==
    LET n == job_name_of(job)
        d == duration_of(job)
    IN  IF \E k \in DOMAIN jt : jt[k].name = n
        THEN [k \in DOMAIN jt |->
                 IF jt[k].name = n
                 THEN [name |-> n, times |-> Append(jt[k].times, d)]
                 ELSE jt[k]]
        ELSE Append(jt, [name |-> n, times |-> <<d>>])

\* job.get(...) raises AttributeError on a value that is no dict
get_raises(job) == ~job.is_dict

\* lines 117-123: the jobs added in order, up to the first that raises
RECURSIVE AddJobs(_, _)
AddJobs(jt, jobs) ==
    IF jobs = <<>> \/ get_raises(Head(jobs)) THEN jt
    ELSE AddJobs(AddJob(jt, Head(jobs)), Tail(jobs))

\* (job_name, sum(times) / len(times)): the mean kept as the pair sum, count
avg_job_times(jt) ==
    [k \in DOMAIN jt |->
        [name |-> jt[k].name, sum |-> SumSeq(jt[k].times), count |-> Len(jt[k].times)]]

\* a[1] > b[1] for two (name, mean) tuples
MeanGreater(a, b) == a.sum * b.count > b.sum * a.count

\* insert x into the descending sequence s, after the elements not below it
RECURSIVE InsertDesc(_, _)
InsertDesc(s, x) ==
    IF s = <<>> THEN <<x>>
    ELSE IF MeanGreater(x, Head(s)) THEN <<x>> \o s
    ELSE <<Head(s)>> \o InsertDesc(Tail(s), x)

\* sorted(s, key=lambda x: x[1], reverse=True): stable, ties keep their order
RECURSIVE SortedDesc(_)
SortedDesc(s) ==
    IF s = <<>> THEN <<>>
    ELSE InsertDesc(SortedDesc(SubSeq(s, 1, Len(s) - 1)), s[Len(s)])

\* the averages returned in the order of the dict, not sorted
slowest_jobs_unsorted(jt) == avg_job_times(jt)

\* the value identify_slowest_jobs returns for the accumulated job_times
slowest_jobs(jt) == SortedDesc(avg_job_times(jt))

-----------------------------------------------------------------------------
(* Output *)

OutLine(kind, name, id, text) == [kind |-> kind, name |-> name, id |-> id, text |-> text]

Say(kind) == OutLine(kind, "", 0, NoText)

ErrLine(kind, text) == [kind |-> kind, text |-> text]

Cmd(kind, id) == [cmd |-> kind, run_id |-> id]

\* lines 139-146: the banner
Banner == << Say("banner") >>

\* lines 150-152: the heading and one line per item of perf
MetricLines(p) ==
    << Say("metrics_heading") >>
    \o (IF DOMAIN p = {} THEN <<>>
        ELSE [k \in DOMAIN PerfKeys |-> OutLine("metric", PerfKeys[k], 0, NoText)])

\* slowest[:5]
top_jobs(sl) == SubSeq(sl, 1, Min(Len(sl), TopJobs))

\* lines 157-158: one line per job of slowest[:5], the mean printed with one decimal
JobLines(sl) ==
    LET top == top_jobs(sl) IN
    [k \in DOMAIN top |->
        OutLine("job", top[k].name, 0, Format1f(top[k].sum, top[k].count))]

\* line 163-164: float(perf['success_rate'].rstrip('%')) < 90
low_success(p) == FloatTenths(p.success_rate) < 10 * LowSuccessThreshold

\* line 167-168: float(perf['avg_duration_minutes']) > 10
high_avg(p) == FloatTenths(p.avg_duration_minutes) > 10 * HighAvgThreshold

\* line 171-173: slowest and slowest[0][1] > 5
slow_job(sl) == sl # <<>> /\ sl[1].sum > SlowJobThreshold * sl[1].count

\* lines 161-174: the heading and the recommendations that apply
RecommendationLines(p, sl) ==
    << Say("recommendations_heading") >>
    \o (IF low_success(p) THEN << Say("low_success_rate") >> ELSE <<>>)
    \o (IF high_avg(p) THEN << Say("high_average_duration") >> ELSE <<>>)
    \o (IF slow_job(sl)
        THEN << OutLine("slowest_job", sl[1].name, 0, Format1f(sl[1].sum, sl[1].count)) >>
        ELSE <<>>)

\* lines 176-183: the fixed list of strategies and the closing rule
StrategyLines == << Say("strategies") >>

-----------------------------------------------------------------------------
(* parse_step_logs.  A line is the sequence of the code points of its       *)
(* characters: ASCII characters, none of them a newline.                     *)

\* the ASCII characters from the space, chr(32), to the underscore, chr(95),
\* and from a, chr(97), to the tilde, chr(126), in the order of their code points
Printable ==
    << " ", "!", "\"", "#", "$", "%", "&", "'", "(", ")", "*", "+", ",", "-", ".", "/",
       "0", "1", "2", "3", "4", "5", "6", "7", "8", "9", ":", ";", "<", "=", ">", "?",
       "@", "A", "B", "C", "D", "E", "F", "G", "H", "I", "J", "K", "L", "M", "N", "O",
       "P", "Q", "R", "S", "T", "U", "V", "W", "X", "Y", "Z", "[", "\\", "]", "^", "_" >>

Lowercase ==
    << "a", "b", "c", "d", "e", "f", "g", "h", "i", "j", "k", "l", "m", "n", "o", "p",
       "q", "r", "s", "t", "u", "v", "w", "x", "y", "z", "{", "|", "}", "~" >>

\* ord(c) of one of these characters, a tab or a carriage return
ord(c) ==
    IF c = "\t" THEN 9
    ELSE IF c = "\r" THEN 13
    ELSE IF \E k \in DOMAIN Printable : Printable[k] = c
    THEN 31 + CHOOSE k \in DOMAIN Printable : Printable[k] = c
    ELSE 96 + CHOOSE k \in DOMAIN Lowercase : Lowercase[k] = c

\* the text made of the given characters
Text(chars) == [k \in DOMAIN chars |-> ord(chars[k])]

\* the ASCII characters str.strip() and str.split() take for whitespace:
\* \t \n \v \f \r, the separators \x1c to \x1f, and the space
Whitespace == {9, 10, 11, 12, 13, 28, 29, 30, 31, 32}

IsDigit(c) == c \in 48..57

DigitValue(c) == c - 48

\* c.lower()
Lower(c) == IF c \in 65..90 THEN c + 32 ELSE c

\* line.startswith(prefix)
startswith(line, prefix) ==
    Len(line) >= Len(prefix) /\ SubSeq(line, 1, Len(prefix)) = prefix

\* line.endswith(suffix)
endswith(line, suffix) ==
    Len(line) >= Len(suffix)
    /\ SubSeq(line, Len(line) - Len(suffix) + 1, Len(line)) = suffix

\* sub in line
contains(line, sub) ==
    \E k \in 1..(Len(line) - Len(sub) + 1) : SubSeq(line, k, k + Len(sub) - 1) = sub

\* line.strip().split() is empty: the line holds nothing but whitespace
no_token(line) == \A k \in DOMAIN line : line[k] \in Whitespace

\* line.strip().split()[-1]: the last run of characters that are not whitespace
last_token(line) ==
    LET e == CHOOSE k \in DOMAIN line :
                 line[k] \notin Whitespace
                 /\ \A m \in (k + 1)..Len(line) : line[m] \in Whitespace
        b == CHOOSE k \in 1..e :
                 /\ \A m \in k..e : line[m] \notin Whitespace
                 /\ (k = 1 \/ line[k - 1] \in Whitespace)
    IN  SubSeq(line, b, e)

\* token.rstrip('s'): every trailing s removed
RECURSIVE rstrip_s(_)
rstrip_s(token) ==
    IF token # <<>> /\ token[Len(token)] = ord("s")
    THEN rstrip_s(SubSeq(token, 1, Len(token) - 1))
    ELSE token

-----------------------------------------------------------------------------
(* float(text), for a text without whitespace:                               *)
(*     [sign] (number [exponent] | "inf" | "infinity" | "nan")               *)
(* with the letters in either case, a number being digits with at most one   *)
(* point and at least one digit, an exponent e or E, an optional sign and    *)
(* digits, and single underscores allowed between two digits.                *)

\* every underscore stands between two digits
underscores_ok(text) ==
    \A k \in DOMAIN text :
        text[k] = ord("_") =>
            /\ k > 1
            /\ k < Len(text)
            /\ IsDigit(text[k - 1])
            /\ IsDigit(text[k + 1])

without_underscores(text) == SelectSeq(text, LAMBDA c : c # ord("_"))

has_sign(text) == text # <<>> /\ text[1] \in {ord("+"), ord("-")}

negative(text) == text # <<>> /\ text[1] = ord("-")

unsigned(text) == IF has_sign(text) THEN Tail(text) ELSE text

lower(text) == [k \in DOMAIN text |-> Lower(text[k])]

is_inf(body) ==
    lower(body) \in { Text(<<"i", "n", "f">>),
                      Text(<<"i", "n", "f", "i", "n", "i", "t", "y">>) }

is_nan(body) == lower(body) = Text(<<"n", "a", "n">>)

\* the position of the first e or E, 0 when there is none
exponent_at(body) ==
    LET es == { k \in DOMAIN body : Lower(body[k]) = ord("e") } IN
    IF es = {} THEN 0 ELSE CHOOSE k \in es : \A m \in es : k <= m

mantissa_of(body) ==
    IF exponent_at(body) = 0 THEN body ELSE SubSeq(body, 1, exponent_at(body) - 1)

exponent_of(body) == SubSeq(body, exponent_at(body) + 1, Len(body))

mantissa_ok(m) ==
    /\ \A k \in DOMAIN m : IsDigit(m[k]) \/ m[k] = ord(".")
    /\ Cardinality({ k \in DOMAIN m : m[k] = ord(".") }) <= 1
    /\ \E k \in DOMAIN m : IsDigit(m[k])

exponent_ok(x) ==
    /\ unsigned(x) # <<>>
    /\ \A k \in DOMAIN unsigned(x) : IsDigit(unsigned(x)[k])

number_ok(body) ==
    /\ mantissa_ok(mantissa_of(body))
    /\ exponent_at(body) = 0 \/ exponent_ok(exponent_of(body))

\* float(text) does not raise ValueError
float_ok(text) ==
    /\ underscores_ok(text)
    /\ LET body == unsigned(without_underscores(text)) IN
       is_inf(body) \/ is_nan(body) \/ number_ok(body)

RECURSIVE DigitsValue(_)
DigitsValue(ds) ==
    IF ds = <<>> THEN 0
    ELSE 10 * DigitsValue(SubSeq(ds, 1, Len(ds) - 1)) + DigitValue(ds[Len(ds)])

\* the positions of the digits that are not 0
NonZero(ds) == { k \in DOMAIN ds : ds[k] # 0 }

strip_leading_zeros(ds) ==
    IF NonZero(ds) = {} THEN <<>>
    ELSE SubSeq(ds, CHOOSE k \in NonZero(ds) : \A m \in NonZero(ds) : k <= m, Len(ds))

strip_trailing_zeros(ds) ==
    IF NonZero(ds) = {} THEN <<>>
    ELSE SubSeq(ds, 1, CHOOSE k \in NonZero(ds) : \A m \in NonZero(ds) : k >= m)

\* the digits of a mantissa, the point left out
digits_of(m) ==
    LET ds == SelectSeq(m, IsDigit) IN [k \in DOMAIN ds |-> DigitValue(ds[k])]

\* the number of digits after the point
places_of(m) ==
    LET points == { k \in DOMAIN m : m[k] = ord(".") } IN
    IF points = {} THEN 0 ELSE Len(m) - (CHOOSE k \in points : TRUE)

\* the value of an exponent; one of more than six digits is beyond every
\* double, whatever the mantissa of a text shorter than 10^6 characters
exponent_value(body) ==
    IF exponent_at(body) = 0 THEN 0
    ELSE LET x == exponent_of(body)
             ds == strip_leading_zeros(digits_of(unsigned(x)))
             v == IF Len(ds) > 6 THEN 999999
                  ELSE DigitsValue([k \in DOMAIN ds |-> ds[k] + 48])
         IN  IF negative(x) THEN 0 - v ELSE v

(* The values of a duration.  The int 0 a step starts with; and the floats:  *)
(* a NaN, an infinity, or the double nearest to sig * 10^exp, where sig is   *)
(* a decimal numeral without leading or trailing zeros (empty for zero).     *)
(* float() rounds the decimal it reads to the nearest double: the model      *)
(* keeps the decimal, so two decimals can stand for one double.              *)

\* the int 0
Zero == [kind |-> "int", neg |-> FALSE, sig |-> <<>>, exp |-> 0]

NaN(neg) == [kind |-> "nan", neg |-> neg, sig |-> <<>>, exp |-> 0]

Infinity(neg) == [kind |-> "inf", neg |-> neg, sig |-> <<>>, exp |-> 0]

FloatZero(neg) == [kind |-> "float", neg |-> neg, sig |-> <<>>, exp |-> 0]

\* the digits of 2^1024 - 2^970, midway between the largest double and 2^1024:
\* a decimal from there on is read as an infinity
OverflowDigits ==
    << 1, 7, 9, 7, 6, 9, 3, 1, 3, 4, 8, 6, 2, 3, 1, 5, 8, 0, 7, 9, 3, 7, 2, 8, 9,
       7, 1, 4, 0, 5, 3, 0, 3, 4, 1, 5, 0, 7, 9, 9, 3, 4, 1, 3, 2, 7, 1, 0, 0, 3,
       7, 8, 2, 6, 9, 3, 6, 1, 7, 3, 7, 7, 8, 9, 8, 0, 4, 4, 4, 9, 6, 8, 2, 9, 2,
       7, 6, 4, 7, 5, 0, 9, 4, 6, 6, 4, 9, 0, 1, 7, 9, 7, 7, 5, 8, 7, 2, 0, 7, 0,
       9, 6, 3, 3, 0, 2, 8, 6, 4, 1, 6, 6, 9, 2, 8, 8, 7, 9, 1, 0, 9, 4, 6, 5, 5,
       5, 5, 4, 7, 8, 5, 1, 9, 4, 0, 4, 0, 2, 6, 3, 0, 6, 5, 7, 4, 8, 8, 6, 7, 1,
       5, 0, 5, 8, 2, 0, 6, 8, 1, 9, 0, 8, 9, 0, 2, 0, 0, 0, 7, 0, 8, 3, 8, 3, 6,
       7, 6, 2, 7, 3, 8, 5, 4, 8, 4, 5, 8, 1, 7, 7, 1, 1, 5, 3, 1, 7, 6, 4, 4, 7,
       5, 7, 3, 0, 2, 7, 0, 0, 6, 9, 8, 5, 5, 5, 7, 1, 3, 6, 6, 9, 5, 9, 6, 2, 2,
       8, 4, 2, 9, 1, 4, 8, 1, 9, 8, 6, 0, 8, 3, 4, 9, 3, 6, 4, 7, 5, 2, 9, 2, 7,
       1, 9, 0, 7, 4, 1, 6, 8, 4, 4, 4, 3, 6, 5, 5, 1, 0, 7, 0, 4, 3, 4, 2, 7, 1,
       1, 5, 5, 9, 6, 9, 9, 5, 0, 8, 0, 9, 3, 0, 4, 2, 8, 8, 0, 1, 7, 7, 9, 0, 4,
       1, 7, 4, 4, 9, 7, 7, 9, 2 >>

\* the digits of 2^-1075, half the smallest double above zero: a decimal up
\* to there is read as zero
UnderflowDigits ==
    << 2, 4, 7, 0, 3, 2, 8, 2, 2, 9, 2, 0, 6, 2, 3, 2, 7, 2, 0, 8, 8, 2, 8, 4, 3,
       9, 6, 4, 3, 4, 1, 1, 0, 6, 8, 6, 1, 8, 2, 5, 2, 9, 9, 0, 1, 3, 0, 7, 1, 6,
       2, 3, 8, 2, 2, 1, 2, 7, 9, 2, 8, 4, 1, 2, 5, 0, 3, 3, 7, 7, 5, 3, 6, 3, 5,
       1, 0, 4, 3, 7, 5, 9, 3, 2, 6, 4, 9, 9, 1, 8, 1, 8, 0, 8, 1, 7, 9, 9, 6, 1,
       8, 9, 8, 9, 8, 2, 8, 2, 3, 4, 7, 7, 2, 2, 8, 5, 8, 8, 6, 5, 4, 6, 3, 3, 2,
       8, 3, 5, 5, 1, 7, 7, 9, 6, 9, 8, 9, 8, 1, 9, 9, 3, 8, 7, 3, 9, 8, 0, 0, 5,
       3, 9, 0, 9, 3, 9, 0, 6, 3, 1, 5, 0, 3, 5, 6, 5, 9, 5, 1, 5, 5, 7, 0, 2, 2,
       6, 3, 9, 2, 2, 9, 0, 8, 5, 8, 3, 9, 2, 4, 4, 9, 1, 0, 5, 1, 8, 4, 4, 3, 5,
       9, 3, 1, 8, 0, 2, 8, 4, 9, 9, 3, 6, 5, 3, 6, 1, 5, 2, 5, 0, 0, 3, 1, 9, 3,
       7, 0, 4, 5, 7, 6, 7, 8, 2, 4, 9, 2, 1, 9, 3, 6, 5, 6, 2, 3, 6, 6, 9, 8, 6,
       3, 6, 5, 8, 4, 8, 0, 7, 5, 7, 0, 0, 1, 5, 8, 5, 7, 6, 9, 2, 6, 9, 9, 0, 3,
       7, 0, 6, 3, 1, 1, 9, 2, 8, 2, 7, 9, 5, 5, 8, 5, 5, 1, 3, 3, 2, 9, 2, 7, 8,
       3, 4, 3, 3, 8, 4, 0, 9, 3, 5, 1, 9, 7, 8, 0, 1, 5, 5, 3, 1, 2, 4, 6, 5, 9,
       7, 2, 6, 3, 5, 7, 9, 5, 7, 4, 6, 2, 2, 7, 6, 6, 4, 6, 5, 2, 7, 2, 8, 2, 7,
       2, 2, 0, 0, 5, 6, 3, 7, 4, 0, 0, 6, 4, 8, 5, 4, 9, 9, 9, 7, 7, 0, 9, 6, 5,
       9, 9, 4, 7, 0, 4, 5, 4, 0, 2, 0, 8, 2, 8, 1, 6, 6, 2, 2, 6, 2, 3, 7, 8, 5,
       7, 3, 9, 3, 4, 5, 0, 7, 3, 6, 3, 3, 9, 0, 0, 7, 9, 6, 7, 7, 6, 1, 9, 3, 0,
       5, 7, 7, 5, 0, 6, 7, 4, 0, 1, 7, 6, 3, 2, 4, 6, 7, 3, 6, 0, 0, 9, 6, 8, 9,
       5, 1, 3, 4, 0, 5, 3, 5, 5, 3, 7, 4, 5, 8, 5, 1, 6, 6, 6, 1, 1, 3, 4, 2, 2,
       3, 7, 6, 6, 6, 7, 8, 6, 0, 4, 1, 6, 2, 1, 5, 9, 6, 8, 0, 4, 6, 1, 9, 1, 4,
       4, 6, 7, 2, 9, 1, 8, 4, 0, 3, 0, 0, 5, 3, 0, 0, 5, 7, 5, 3, 0, 8, 4, 9, 0,
       4, 8, 7, 6, 5, 3, 9, 1, 7, 1, 1, 3, 8, 6, 5, 9, 1, 6, 4, 6, 2, 3, 9, 5, 2,
       4, 9, 1, 2, 6, 2, 3, 6, 5, 3, 8, 8, 1, 8, 7, 9, 6, 3, 6, 2, 3, 9, 3, 7, 3,
       2, 8, 0, 4, 2, 3, 8, 9, 1, 0, 1, 8, 6, 7, 2, 3, 4, 8, 4, 9, 7, 6, 6, 8, 2,
       3, 5, 0, 8, 9, 8, 6, 3, 3, 8, 8, 5, 8, 7, 9, 2, 5, 6, 2, 8, 3, 0, 2, 7, 5,
       5, 9, 9, 5, 6, 5, 7, 5, 2, 4, 4, 5, 5, 5, 0, 7, 2, 5, 5, 1, 8, 9, 3, 1, 3,
       6, 9, 0, 8, 3, 6, 2, 5, 4, 7, 7, 9, 1, 8, 6, 9, 4, 8, 6, 6, 7, 9, 9, 4, 9,
       6, 8, 3, 2, 4, 0, 4, 9, 7, 0, 5, 8, 2, 1, 0, 2, 8, 5, 1, 3, 1, 8, 5, 4, 5,
       1, 3, 9, 6, 2, 1, 3, 8, 3, 7, 7, 2, 2, 8, 2, 6, 1, 4, 5, 4, 3, 7, 6, 9, 3,
       4, 1, 2, 5, 3, 2, 0, 9, 8, 5, 9, 1, 3, 2, 7, 6, 6, 7, 2, 3, 6, 3, 2, 8, 1,
       2, 5 >>

\* the order of two numerals read as 0.d1d2d3...: -1, 0 or 1
CompareDigits(a, b) ==
    LET n == IF Len(a) > Len(b) THEN Len(a) ELSE Len(b)
        x(k) == IF k <= Len(a) THEN a[k] ELSE 0
        y(k) == IF k <= Len(b) THEN b[k] ELSE 0
        differ == { k \in 1..n : x(k) # y(k) }
        first == CHOOSE k \in differ : \A m \in differ : k <= m
    IN  IF differ = {} THEN 0
        ELSE IF x(first) < y(first) THEN 0 - 1
        ELSE 1

\* the double nearest to sig * 10^exp, sig without leading or trailing zeros
nearest_double(neg, sig, exp) ==
    LET e == exp + Len(sig) - 1 IN
    IF sig = <<>> THEN FloatZero(neg)
    ELSE IF e > 308 \/ (e = 308 /\ CompareDigits(sig, OverflowDigits) >= 0)
    THEN Infinity(neg)
    ELSE IF e < 0 - 324 \/ (e = 0 - 324 /\ CompareDigits(sig, UnderflowDigits) <= 0)
    THEN FloatZero(neg)
    ELSE [kind |-> "float", neg |-> neg, sig |-> sig, exp |-> exp]

\* float(text), for a text float() accepts
float_of(text) ==
    LET body == unsigned(without_underscores(text))
        neg == negative(text)
        m == mantissa_of(body)
        ds == strip_leading_zeros(digits_of(m))
        sig == strip_trailing_zeros(ds)
    IN  IF is_inf(body) THEN Infinity(neg)
        ELSE IF is_nan(body) THEN NaN(neg)
        ELSE nearest_double(neg, sig,
                            exponent_value(body) - places_of(m) + (Len(ds) - Len(sig)))

\* current_step = None
NoStep == [set |-> FALSE, name |-> <<>>, duration |-> Zero]

\* {'name': line, 'duration': 0}
NewStep(line) == [set |-> TRUE, name |-> line, duration |-> Zero]

\* the dict appended to steps
StepOf(cur) == [name |-> cur.name, duration |-> cur.duration]

\* line 75: `current_step and 's$' in line`, a test for the two characters s, $
is_duration_line(cur, line) == cur.set /\ contains(line, Text(<<"s", "$">>))

\* lines 77-82: the duration read from the line, or the step as it was when
\* split()[-1] raises IndexError or float() raises ValueError
with_duration(cur, line) ==
    IF no_token(line) THEN cur
    ELSE LET duration_str == rstrip_s(last_token(line)) IN
         IF float_ok(duration_str)
         THEN [cur EXCEPT !.duration = float_of(duration_str)]
         ELSE cur

\* grep -E '(^\[|^  .*s$)': the lines get_step_timings keeps
grep_match(line) ==
    \/ startswith(line, Text(<<"[">>))
    \/ (Len(line) >= 3 /\ startswith(line, Text(<<" ", " ">>))
                       /\ endswith(line, Text(<<"s">>)))

RECURSIVE grep(_)
grep(lines) ==
    IF lines = <<>> THEN <<>>
    ELSE (IF grep_match(Head(lines)) THEN <<Head(lines)>> ELSE <<>>) \o grep(Tail(lines))

\* the parts of a line between its carriage returns
RECURSIVE split_cr(_)
split_cr(line) ==
    LET crs == { k \in DOMAIN line : line[k] = ord("\r") } IN
    IF crs = {} THEN << line >>
    ELSE LET p == CHOOSE k \in crs : \A m \in crs : k <= m IN
         << SubSeq(line, 1, p - 1) >> \o split_cr(SubSeq(line, p + 1, Len(line)))

\* run_command reads the output as text (text=True), which turns every
\* "\r\n" and every other "\r" into "\n": the lines read for the lines written
RECURSIVE universal_newlines(_)
universal_newlines(lines) ==
    IF lines = <<>> THEN <<>>
    ELSE LET parts == split_cr(Head(lines)) IN
         (IF Len(parts) > 1 /\ parts[Len(parts)] = <<>>
          THEN SubSeq(parts, 1, Len(parts) - 1)
          ELSE parts) \o universal_newlines(Tail(lines))

\* get_step_timings, lines 58-61: the command cannot fail (`|| true`); every
\* line grep prints ends in a newline, so split('\n') yields one more, empty line
GetStepTimings ==
    /\ pc = "log_start"
    /\ cmds' = Append(cmds, Cmd("run view log", 1))
    /\ log_output' = universal_newlines(grep(gh_log)) \o << <<>> >>
    /\ li' = 0
    /\ current_step' = NoStep
    /\ steps' = <<>>
    /\ pc' = "parse"
    /\ UNCHANGED gh_log
    /\ UNCHANGED mainVars

\* parse_step_logs called on a log text, lines 66-69
CallParseStepLogs ==
    /\ pc = "log_start"
    /\ log_output' = gh_log
    /\ li' = 0
    /\ current_step' = NoStep
    /\ steps' = <<>>
    /\ pc' = "parse"
    /\ UNCHANGED <<gh_log, cmds>>
    /\ UNCHANGED mainVars

\* parse_step_logs, lines 69-82: one iteration of the loop over the lines
ParseLine ==
    /\ pc = "parse"
    /\ li < Len(log_output)
    /\ LET line == log_output[li + 1] IN
       IF startswith(line, Text(<<"[">>))
       THEN /\ steps' = IF current_step.set THEN Append(steps, StepOf(current_step))
                        ELSE steps
            /\ current_step' = NewStep(line)
       ELSE IF is_duration_line(current_step, line)
       THEN /\ current_step' = with_duration(current_step, line)
            /\ UNCHANGED steps
       ELSE UNCHANGED <<current_step, steps>>
    /\ li' = li + 1
    /\ UNCHANGED <<pc, gh_log, log_output, cmds>>
    /\ UNCHANGED mainVars

\* parse_step_logs, lines 84-87
ParseReturn ==
    /\ pc = "parse"
    /\ li = Len(log_output)
    /\ steps' = IF current_step.set THEN Append(steps, StepOf(current_step)) ELSE steps
    /\ pc' = "parsed"
    /\ UNCHANGED <<gh_log, log_output, li, current_step, cmds>>
    /\ UNCHANGED mainVars

LogNext ==
    \/ GetStepTimings
    \/ CallParseStepLogs
    \/ ParseLine
    \/ ParseReturn

-----------------------------------------------------------------------------
(* main *)

\* the empty check left out
no_runs_unchecked(rs) == FALSE

\* `not runs`
no_runs(rs) == rs = <<>>

\* the command's own status passed on: sys.exit(e.returncode)
run_command_exit_returncode(result) == result.returncode

\* the status run_command exits with when the command fails: sys.exit(1)
run_command_exit(result) == ExitFailure

Exit(code) == pc' = "exited" /\ exit_code' = code

\* line 206: parser.parse_args().  --repo is required and --last-runs an int:
\* a command line that is not accepted prints the usage to standard error and
\* exits with status 2; -h or --help (added by ArgumentParser) prints the help
\* text to standard output and exits with status 0
ParseArgs ==
    /\ pc = "start"
    /\ IF args = "accepted"
       THEN /\ pc' = "fetch_runs"
            /\ UNCHANGED <<stdout, stderr, exit_code>>
       ELSE IF args = "help"
       THEN /\ stdout' = Append(stdout, Say("help"))
            /\ Exit(ExitHelp)
            /\ UNCHANGED stderr
       ELSE /\ stderr' = Append(stderr, ErrLine("usage", ""))
            /\ Exit(ExitUsage)
            /\ UNCHANGED stdout
    /\ UNCHANGED <<args, gh_runs, gh_jobs, cmds, runs, perf, i, job_times, slowest>>
    /\ UNCHANGED logVars

\* lines 209-218: get_workflow_runs through run_command, then the empty check
FetchRuns ==
    /\ pc = "fetch_runs"
    /\ cmds' = Append(cmds, Cmd("run list", 0))
    /\ IF CalledProcessError(gh_runs)
       THEN /\ stdout' = Append(stdout, Say("fetching"))
            /\ stderr' = Append(stderr, ErrLine("error", gh_runs.stderr))
            /\ Exit(run_command_exit(gh_runs))
            /\ UNCHANGED runs
       ELSE /\ runs' = gh_runs.stdout
            /\ UNCHANGED stderr
            /\ IF no_runs(runs')
               THEN /\ stdout' = stdout \o << Say("fetching"), Say("no_runs") >>
                    /\ Exit(ExitFailure)
               ELSE /\ stdout' = Append(stdout, Say("fetching"))
                    /\ pc' = "report"
                    /\ UNCHANGED exit_code
    /\ UNCHANGED <<args, gh_runs, gh_jobs, perf, i, job_times, slowest>>
    /\ UNCHANGED logVars

\* print_analysis_report, lines 139-156: banner, metrics, the heading of the
\* slowest jobs, and the entry into identify_slowest_jobs
ReportMetrics ==
    /\ pc = "report"
    /\ perf' = analyze_performance(runs)
    /\ stdout' = stdout \o Banner \o MetricLines(perf') \o << Say("slowest_heading") >>
    /\ job_times' = <<>>
    /\ i' = 0
    /\ pc' = "slowest"
    /\ UNCHANGED <<args, gh_runs, gh_jobs, cmds, runs, slowest, stderr, exit_code>>
    /\ UNCHANGED logVars

\* identify_slowest_jobs, lines 114-126: one iteration of the loop over runs[:10].
\* A failing command ends the process inside run_command: sys.exit raises
\* SystemExit, which `except Exception` does not catch.  The handler answers a
\* line that is not JSON (raised in get_job_details, before any job is added)
\* and a job that is no dict (raised in the loop over the jobs, after the jobs
\* before it were added) with a warning.
FetchJobDetails ==
    /\ pc = "slowest"
    /\ i < Len(analyzed_runs(runs))
    /\ LET run == analyzed_runs(runs)[i + 1]
           result == gh_jobs[run.id]
           parsed == get_job_details(result.stdout)
       IN  /\ cmds' = Append(cmds, Cmd("run view jobs", run.id))
           /\ IF CalledProcessError(result)
              THEN /\ stderr' = Append(stderr, ErrLine("error", result.stderr))
                   /\ Exit(run_command_exit(result))
                   /\ UNCHANGED <<i, job_times, stdout>>
              ELSE /\ job_times' = AddJobs(job_times, parsed.jobs)
                   /\ stdout' = IF parsed.raised
                                    \/ \E k \in DOMAIN parsed.jobs : get_raises(parsed.jobs[k])
                                 THEN Append(stdout, OutLine("warning", "", run.id, NoText))
                                 ELSE stdout
                   /\ i' = i + 1
                   /\ UNCHANGED <<stderr, pc, exit_code>>
    /\ UNCHANGED <<args, gh_runs, gh_jobs, runs, perf, slowest>>
    /\ UNCHANGED logVars

\* identify_slowest_jobs, lines 128-134, and the report's lines 157-158
SlowestJobs ==
    /\ pc = "slowest"
    /\ i = Len(analyzed_runs(runs))
    /\ slowest' = slowest_jobs(job_times)
    /\ stdout' = stdout \o JobLines(slowest')
    /\ pc' = "recommend"
    /\ UNCHANGED <<args, gh_runs, gh_jobs, cmds, runs, perf, i, job_times,
                   stderr, exit_code>>
    /\ UNCHANGED logVars

\* print_analysis_report, lines 161-183, and the return of main.  perf has no
\* 'success_rate' when it is the empty mapping: the KeyError is not caught and
\* the interpreter ends with a traceback and status 1.
Recommendations ==
    /\ pc = "recommend"
    /\ IF DOMAIN perf = {}
       THEN /\ stdout' = Append(stdout, Say("recommendations_heading"))
            /\ stderr' = Append(stderr, ErrLine("traceback", "KeyError"))
            /\ Exit(ExitFailure)
       ELSE /\ stdout' = stdout \o RecommendationLines(perf, slowest) \o StrategyLines
            /\ UNCHANGED stderr
            /\ Exit(ExitSuccess)
    /\ UNCHANGED <<args, gh_runs, gh_jobs, cmds, runs, perf, i, job_times, slowest>>
    /\ UNCHANGED logVars

MainNext ==
    \/ ParseArgs
    \/ FetchRuns
    \/ ReportMetrics
    \/ FetchJobDetails
    \/ SlowestJobs
    \/ Recommendations

-----------------------------------------------------------------------------
(* Inputs *)

LogIdle ==
    /\ gh_log = <<>>
    /\ log_output = <<>>
    /\ li = 0
    /\ current_step = NoStep
    /\ steps = <<>>

MainIdle ==
    /\ cmds = <<>>
    /\ runs = <<>>
    /\ perf = EmptyMapping
    /\ i = 0
    /\ job_times = <<>>
    /\ slowest = <<>>
    /\ stdout = <<>>
    /\ stderr = <<>>
    /\ exit_code = Running

\* run lists: every list of at most MaxRuns sample runs, alone and after a
\* prefix of `prefix` copies of one sample run
RunLists(samples, prefix) ==
    { Rep(b, k) \o t : b \in samples, k \in {0, prefix}, t \in SeqsUpTo(samples, MaxRuns) }

RunIds == {1, 2}

MainRunSamples == { Run(1, "success", 4), Run(2, "failure", 12) }

JobOutputs ==
    { <<>>,
      << J("build", 8) >>,
      << J("build", 2), J("test", 6) >>,
      << J("test", 4), Blank, J("lint", 1) >>,
      << J("build", 2), Malformed, J("test", 6) >>,
      << J("lint", 6), NotObject, J("test", 2) >>,
      << JobLine(FALSE, "", TRUE, 3), JobLine(TRUE, "build", FALSE, 0), J("Unknown", 7) >>,
      << J("build", 5), J("test", 9), J("lint", 1), J("docs", 2), J("e2e", 7), J("deploy", 3) >> }

JobResults ==
    { Completed(1, <<>>, "run not found") } \cup { Completed(0, o, "") : o \in JobOutputs }

RunListResults(samples, prefix) ==
    { Completed(4, <<>>, "authentication required") }
    \cup { Completed(0, rl, "") : rl \in RunLists(samples, prefix) }

Init ==
    /\ pc = "start"
    /\ \/ /\ args = "accepted"
          /\ gh_runs \in RunListResults(MainRunSamples, LongPrefix)
          /\ gh_jobs \in [RunIds -> JobResults]
       \/ /\ args \in {"help", "rejected"}
          /\ gh_runs = Completed(0, <<>>, "")
          /\ gh_jobs = [id \in RunIds |-> Completed(0, <<>>, "")]
    /\ MainIdle
    /\ LogIdle

Next == MainNext

Spec == Init /\ [][Next]_vars

PerfRunSamples ==
    { Run(1, c, d) : c \in {"success", "failure", "cancelled"}, d \in {10, 11, 30} }

InitPerf ==
    /\ pc = "start"
    /\ args = "accepted"
    /\ gh_runs \in RunListResults(PerfRunSamples, LongPrefixPerf)
    /\ gh_jobs = [id \in RunIds |-> Completed(0, << J("build", 8) >>, "")]
    /\ MainIdle
    /\ LogIdle

SpecPerf == InitPerf /\ [][Next]_vars

LogLineSamples ==
    { Text(<< "[", "b", "]" >>),
      Text(<< "[", "a", "]", "\r" >>),
      Text(<< " ", " ", "1", "2", ".", "5", "s" >>),
      Text(<< "s", "$", " ", "3", "s" >>),
      Text(<< "s", "$", "\t", "3", "s", "\r" >>),
      Text(<< " ", " ", "7", "s", "$" >>),
      Text(<< "[", "s", "$", " ", "2", "s" >>),
      <<>>,
      Text(<< " ", " ", "s", "$", " ", "1", ".", "5", "s", "s" >>),
      Text(<< " ", " ", "s", "$" >>) \o << 11 >> \o Text(<< "1", "_", "0", "e", "-", "1", "s" >>),
      Text(<< " ", " ", "s", "$", " ", "-", "I", "n", "f", "s" >>),
      Text(<< "[", "a", "\r", " ", " ", "s", "$", " ", "4", "s" >>) }

\* log texts: text.split('\n') has at least one line
LogTexts == SeqsUpTo(LogLineSamples, MaxLogLines) \ { <<>> }

InitLogs ==
    /\ pc = "log_start"
    /\ args = "accepted"
    /\ gh_runs = Completed(0, <<>>, "")
    /\ gh_jobs = [id \in RunIds |-> Completed(0, <<>>, "")]
    /\ MainIdle
    /\ gh_log \in LogTexts
    /\ log_output = <<>>
    /\ li = 0
    /\ current_step = NoStep
    /\ steps = <<>>

SpecLogs == InitLogs /\ [][LogNext]_vars

-----------------------------------------------------------------------------
(* Vocabulary of the properties *)

Exited == pc = "exited"

Printed(kind) == \E k \in DOMAIN stdout : stdout[k].kind = kind

ReportKinds ==
    { "banner", "metrics_heading", "metric", "slowest_heading", "job",
      "recommendations_heading", "low_success_rate", "high_average_duration",
      "slowest_job", "strategies" }

NoReportPrinted == \A k \in DOMAIN stdout : stdout[k].kind \notin ReportKinds

FullReportPrinted ==
    /\ Printed("banner")
    /\ Printed("metrics_heading")
    /\ Printed("slowest_heading")
    /\ Printed("recommendations_heading")
    /\ Printed("strategies")

RECURSIVE OfKind(_, _)
OfKind(lines, kind) ==
    IF lines = <<>> THEN <<>>
    ELSE (IF Head(lines).kind = kind THEN <<Head(lines)>> ELSE <<>>)
         \o OfKind(Tail(lines), kind)

\* the job-detail commands issued so far
JobCmds == { k \in DOMAIN cmds : cmds[k].cmd = "run view jobs" }

\* the run-list command has been issued and has succeeded
RunListSucceeded == cmds # <<>> /\ gh_runs.returncode = 0

\* the positions of the run list that identify_slowest_jobs may look at
FirstTen == 1..Min(Len(runs), 10)

\* what the client answers for the run at position k
JobResultAt(k) == gh_jobs[runs[k].id]

FetchFails(k) == JobResultAt(k).returncode # 0

HasMalformedLine(k) ==
    \E j \in DOMAIN JobResultAt(k).stdout : JobResultAt(k).stdout[j].kind = "malformed"

\* the job records in the output of the runs at the positions K, as pairs
\* (position of the run, line of the output)
RecordsOf(K) ==
    UNION { { <<k, j>> : j \in { m \in DOMAIN JobResultAt(k).stdout :
                                    JobResultAt(k).stdout[m].kind = "job" } } : k \in K }

RecordName(r) ==
    LET line == JobResultAt(r[1]).stdout[r[2]] IN
    IF line.has_name THEN line.name ELSE "Unknown"

RecordMinutes(r) ==
    LET line == JobResultAt(r[1]).stdout[r[2]] IN
    IF line.has_duration THEN line.durationMinutes ELSE 0

RECURSIVE TotalMinutes(_)
TotalMinutes(R) ==
    IF R = {} THEN 0
    ELSE LET r == CHOOSE x \in R : TRUE IN RecordMinutes(r) + TotalMinutes(R \ {r})

Named(R, n) == { r \in R : RecordName(r) = n }

HasNotObjectLine(k) ==
    \E j \in DOMAIN JobResultAt(k).stdout : JobResultAt(k).stdout[j].kind = "not_object"

\* the runs whose job records are usable: fetched, and every line parsed
Usable(K) == { k \in K : ~FetchFails(k) /\ ~HasMalformedLine(k) }

\* the job records that reach job_times: those of the usable runs at the
\* positions K that no line holding a value other than an object precedes
Contributing(K) ==
    { r \in RecordsOf(Usable(K)) :
        \A j \in 1..(r[2] - 1) : JobResultAt(r[1]).stdout[j].kind # "not_object" }

\* the run ids of the warnings printed, in order
WarnedIds == LET w == OfKind(stdout, "warning") IN [k \in DOMAIN w |-> w[k].id]

\* the ids of the runs among the first k whose output has a line that is not
\* a JSON object
RECURSIVE MalformedIds(_)
MalformedIds(k) ==
    IF k = 0 THEN <<>>
    ELSE MalformedIds(k - 1)
         \o (IF ~FetchFails(k) /\ (HasMalformedLine(k) \/ HasNotObjectLine(k))
             THEN <<runs[k].id>> ELSE <<>>)

\* identify_slowest_jobs has returned
SlowestReturned == pc = "recommend" \/ (Exited /\ Printed("strategies"))

-----------------------------------------------------------------------------
(* Properties of main and identify_slowest_jobs, checked under Spec *)

\* C1 (as claimed): a job-detail command that returns non-zero does not end the
\* process: the run is logged as a warning and skipped, the loop goes on to the
\* runs after it, and the process does not exit with status 1 because of it.
C1_FailedFetchIsSkipped ==
    \A k \in JobCmds :
        FetchFails(k - 1) =>
            /\ i >= k - 1
            /\ \E w \in DOMAIN WarnedIds : WarnedIds[w] = runs[k - 1].id
            /\ ~(Exited /\ exit_code = ExitFailure)

\* C2: when the run-list command succeeds with zero runs, analyze_performance
\* of the list is the empty mapping and main exits with status 1 straight
\* away: no job-detail command is issued and no part of the report is printed.
C2_EmptyRunListExitsOne ==
    (RunListSucceeded /\ gh_runs.stdout = <<>>) =>
        /\ DOMAIN analyze_performance(runs) = {}
        /\ Exited
        /\ exit_code = 1
        /\ JobCmds = {}
        /\ NoReportPrinted
        /\ Printed("no_runs")

C2_Witness ==
    /\ RunListSucceeded
    /\ gh_runs.stdout = <<>>
    /\ Exited
    /\ Len(stdout) = 2

\* the parts of C3 about the run-list command: a failing run-list command puts
\* its error text on standard error and ends the process with status 1 before
\* any job-detail command and any report section; a run list of at least one
\* run with every command succeeding ends with the full report and status 0.
C3_RunListOutcomes ==
    /\ (cmds # <<>> /\ gh_runs.returncode # 0) =>
          /\ Exited
          /\ exit_code = 1
          /\ stderr = << ErrLine("error", gh_runs.stderr) >>
          /\ JobCmds = {}
          /\ NoReportPrinted
    /\ (/\ Exited
        /\ RunListSucceeded
        /\ runs # <<>>
        /\ \A k \in FirstTen : ~FetchFails(k)) =>
          /\ exit_code = 0
          /\ FullReportPrinted

\* C3 (as claimed): every execution of main ends with exit status 0 or 1.
C3_ExitZeroOrOne ==
    /\ Exited => exit_code \in {0, 1}
    /\ C3_RunListOutcomes

\* C3 (amended): every execution of main whose command line argparse accepts
\* ends with exit status 0 or 1; a rejected command line ends with status 2
\* and a request for help with status 0 and the help text alone, both before
\* any command is issued; the run-list outcomes are as claimed.
C3_ExitZeroOrOneWhenArgsAccepted ==
    /\ (Exited /\ args = "accepted") => exit_code \in {0, 1}
    /\ (Exited /\ args = "rejected") =>
          (exit_code = 2 /\ cmds = <<>> /\ stdout = <<>> /\ Len(stderr) = 1)
    /\ (Exited /\ args = "help") =>
          (exit_code = 0 /\ cmds = <<>> /\ stdout = << Say("help") >> /\ stderr = <<>>)
    /\ C3_RunListOutcomes

C3_Witness ==
    /\ Exited
    /\ args = "accepted"
    /\ gh_runs.returncode # 0
    /\ exit_code = 1
    /\ Len(stderr) = 1

\* C6: job-detail commands are issued only for the runs at positions
\* 0..min(n,10)-1, one per run, in list order; no run at position 10 or later
\* is fetched or contributes to job_times, and no step-log command is issued.
C6_OnlyFirstTenFetched ==
    /\ \A k \in DOMAIN cmds : cmds[k].cmd # "run view log"
    /\ \A k \in DOMAIN cmds :
          IF k = 1 THEN cmds[k] = Cmd("run list", 0)
          ELSE /\ k - 1 \in FirstTen
               /\ cmds[k] = Cmd("run view jobs", runs[k - 1].id)
    /\ SlowestReturned => Len(cmds) = 1 + Cardinality(FirstTen)
    /\ SumSeq([k \in DOMAIN job_times |-> Len(job_times[k].times)])
          <= Cardinality(RecordsOf(FirstTen))

C6_Witness ==
    /\ Len(runs) > 10
    /\ Exited
    /\ exit_code = 0
    /\ Len(cmds) = 11
    /\ job_times # <<>>

\* C8: the list identify_slowest_jobs returns has one (name, mean) pair per
\* distinct job name of the records read from the fetched runs ('Unknown' for
\* a missing name, 0 for a missing duration), the mean being the sum of the
\* name's durations over their count, ordered by mean non-increasing; the
\* report prints the first 5 entries at most and names the first entry
\* exactly when its mean is above 5.
C8_SlowestJobsSortedMeans ==
    SlowestReturned =>
        LET R == Contributing(FirstTen)
            jobs == OfKind(stdout, "job")
            named == OfKind(stdout, "slowest_job")
        IN  /\ { slowest[k].name : k \in DOMAIN slowest } = { RecordName(r) : r \in R }
            /\ \A k, m \in DOMAIN slowest : slowest[k].name = slowest[m].name => k = m
            /\ \A k \in DOMAIN slowest :
                  /\ slowest[k].count = Cardinality(Named(R, slowest[k].name))
                  /\ slowest[k].sum = TotalMinutes(Named(R, slowest[k].name))
            /\ \A k \in 1..(Len(slowest) - 1) :
                  slowest[k].sum * slowest[k + 1].count
                      >= slowest[k + 1].sum * slowest[k].count
            /\ Len(jobs) = Min(Len(slowest), 5)
            /\ \A k \in DOMAIN jobs : jobs[k].name = slowest[k].name
            /\ Exited =>
                  IF slowest # <<>> /\ slowest[1].sum > 5 * slowest[1].count
                  THEN Len(named) = 1 /\ named[1].name = slowest[1].name
                  ELSE named = <<>>

C8_Witness ==
    /\ Exited
    /\ exit_code = 0
    /\ Len(slowest) = 6
    /\ Printed("slowest_job")
    /\ \E k \in DOMAIN slowest : slowest[k].count > 1 /\ slowest[k].sum % slowest[k].count # 0

\* the number of durations job_times holds for each name is the number of job
\* records of that name in the set R
TimesMatchRecords(R) ==
    /\ \A k \in DOMAIN job_times :
          Len(job_times[k].times) = Cardinality(Named(R, job_times[k].name))
    /\ \A r \in R : \E k \in DOMAIN job_times : job_times[k].name = RecordName(r)

\* the positions the loop of identify_slowest_jobs has completed
Processed == { k \in FirstTen : k <= i }

\* C9 (as claimed): in an output with a line that is not a JSON record only
\* that line is skipped; every job record on the other lines of the run still
\* contributes its duration.
C9_OnlyMalformedLineSkipped ==
    pc \in {"slowest", "recommend", "exited"} =>
        TimesMatchRecords(RecordsOf({ k \in Processed : ~FetchFails(k) }))

\* C9 (amended): a line that is not JSON makes get_job_details raise, so no
\* record of that run contributes; a line holding JSON that is no object stops
\* the run at that line, the records before it contribute and those after it
\* do not; either way the run gets a warning and the loop goes on.  Empty
\* lines alone are skipped one by one, and the records of the other runs
\* contribute.
C9_MalformedLineSkipsRun ==
    pc \in {"slowest", "recommend", "exited"} =>
        /\ TimesMatchRecords(Contributing(Processed))
        /\ WarnedIds = MalformedIds(i)

C9_Witness ==
    /\ pc = "recommend"
    /\ \E k \in Processed : ~FetchFails(k) /\ HasMalformedLine(k)
    /\ \E k \in Processed : ~FetchFails(k) /\ HasNotObjectLine(k)
    /\ Len(WarnedIds) = 2
    /\ job_times = << [name |-> "lint", times |-> <<6>>] >>

-----------------------------------------------------------------------------
(* Properties of analyze_performance and the recommendations, under SpecPerf *)

Analyzed == DOMAIN perf # {}

WithConclusion(c) == { k \in DOMAIN runs : runs[k].conclusion = c }

Minutes == { runs[k].durationMinutes : k \in DOMAIN runs }

TotalDuration == SumSeq([k \in DOMAIN runs |-> runs[k].durationMinutes])

Abs(x) == IF x < 0 THEN 0 - x ELSE x

\* C4: total_runs is the number of runs, failures the number of runs concluded
\* 'failure', and success_rate the percentage of runs concluded 'success'
\* rounded to one decimal (the tenth nearest to 100 * successes / total); runs
\* of any other conclusion count in the total only.
C4_SuccessRateRounded ==
    Analyzed =>
        LET n == Len(runs)
            good == Cardinality(WithConclusion("success"))
        IN  /\ perf.total_runs = n
            /\ perf.failures = Cardinality(WithConclusion("failure"))
            /\ perf.success_rate.frac \in 0..9
            /\ 2 * Abs(FloatTenths(perf.success_rate) * n - 1000 * good) <= n

C4_Witness ==
    /\ Analyzed
    /\ Len(runs) = 3
    /\ runs[1].conclusion = "success"
    /\ runs[2].conclusion = "failure"
    /\ runs[3].conclusion = "success"
    /\ perf.success_rate = [int |-> 66, frac |-> 7]
    /\ perf.failures = 1

\* C5: median_duration_minutes is the element at 0-based index floor(n/2) of
\* the durations sorted ascending (at most floor(n/2) durations lie below it
\* and at least floor(n/2)+1 do not exceed it), for even n the upper of the two
\* middle values; it lies between min_duration_minutes and max_duration_minutes,
\* which are the smallest and the largest duration.
C5_MedianIsFloorIndex ==
    Analyzed =>
        LET n == Len(runs)
            med == perf.median_duration_minutes
            below == { k \in DOMAIN runs : runs[k].durationMinutes < med }
            upto == { k \in DOMAIN runs : runs[k].durationMinutes <= med }
        IN  /\ med \in Minutes
            /\ Cardinality(below) <= n \div 2
            /\ Cardinality(upto) >= (n \div 2) + 1
            /\ perf.min_duration_minutes \in Minutes
            /\ perf.max_duration_minutes \in Minutes
            /\ \A d \in Minutes : perf.min_duration_minutes <= d /\ d <= perf.max_duration_minutes
            /\ perf.min_duration_minutes <= med
            /\ med <= perf.max_duration_minutes

C5_Witness ==
    /\ Analyzed
    /\ Len(runs) = 2
    /\ runs[1].durationMinutes = 30
    /\ runs[2].durationMinutes = 10
    /\ perf.min_duration_minutes = 10
    /\ perf.median_duration_minutes = 30

\* C7 (as claimed): the low-success-rate recommendation is printed exactly when
\* successes / total is below 90%, and the high-average-duration recommendation
\* exactly when sum of durations / number of runs is above 10 minutes.
C7_RecommendationsFollowTrueValues ==
    (Exited /\ Printed("strategies")) =>
        /\ Printed("low_success_rate")
              <=> (100 * Cardinality(WithConclusion("success")) < 90 * Len(runs))
        /\ Printed("high_average_duration") <=> (TotalDuration > 10 * Len(runs))

-----------------------------------------------------------------------------
(* Properties of parse_step_logs, checked under SpecLogs *)

IsHeader(line) == line # <<>> /\ line[1] = ord("[")

Headers == { k \in DOMAIN log_output : IsHeader(log_output[k]) }

\* the position of the n-th header line
HeaderAt(n) == CHOOSE k \in Headers : Cardinality({ m \in Headers : m <= k }) = n

\* a line ending in a numeric 's' token, such as "  12.5s"
EndsInSeconds(line) ==
    /\ ~IsHeader(line)
    /\ ~no_token(line)
    /\ LET token == last_token(line) IN
       /\ Len(token) >= 2
       /\ token[Len(token)] = ord("s")
       /\ float_ok(SubSeq(token, 1, Len(token) - 1))

SecondsOf(line) ==
    LET token == last_token(line) IN float_of(SubSeq(token, 1, Len(token) - 1))

\* the duration the n-th entry should have: that of the first duration line
\* after its header and before the next header, 0 when there is none
ClaimedDuration(n) ==
    LET h == HeaderAt(n)
        later == { k \in Headers : k > h }
        stop == IF later = {} THEN Len(log_output) + 1
                ELSE CHOOSE k \in later : \A m \in later : k <= m
        lines == { k \in (h + 1)..(stop - 1) : EndsInSeconds(log_output[k]) }
    IN  IF lines = {} THEN Zero
        ELSE SecondsOf(log_output[CHOOSE k \in lines : \A m \in lines : k <= m])

\* two durations are the same number: both zero, or the same float
IsZero(d) == d.kind \in {"int", "float"} /\ d.sig = <<>>

SameNumber(a, b) == (IsZero(a) /\ IsZero(b)) \/ (a.kind # "nan" /\ a = b)

\* C10 (as claimed): parse_step_logs returns one entry per header line, in
\* order, each with the duration of the next duration line that follows its
\* header before the next header, and 0 when there is none.
C10_StepsPairHeadersWithDurations ==
    pc = "parsed" =>
        /\ Len(steps) = Cardinality(Headers)
        /\ \A n \in DOMAIN steps :
              /\ steps[n].name = log_output[HeaderAt(n)]
              /\ SameNumber(steps[n].duration, ClaimedDuration(n))

====
